---- MODULE Spec2Model ----
(***************************************************************************)
(* Points ledger and claim state machine of the edulumix backend:          *)
(* claimController (createClaim, updateClaim), the point credit / debit of *)
(* jobController (createJob, deleteJob), and the route middleware in front *)
(* of them (protect, superAdminOnly, canPostJobs).                         *)
(*                                                                         *)
(* Spec      every request handler runs to completion before the next one  *)
(*           starts (one action per route).                                *)
(* SpecFail  as Spec, and any store call of a claim handler may throw.     *)
(* SpecLedger as Spec, with the job routes that credit and debit points.   *)
(* SpecAccounts as Spec, with a contributor whose account is not approved. *)
(* SpecContent the job, blog, resource and product routes.                 *)
(* SpecUsers signup and the user management routes.                        *)
(* SpecAudit as Spec, with the route that deletes a user.                  *)
(* SpecConc  claim handlers interleave at their await points.              *)
(* SpecRace  as SpecConc, with the handlers that create and delete a job.  *)
(***************************************************************************)
EXTENDS Integers, Sequences, FiniteSets, TLC

VARIABLES users, claims, jobs, resp, reqs, blogs, resources, products

vars == <<users, claims, jobs, resp, reqs, blogs, resources, products>>

----------------------------------------------------------------------------
(* Bounds of the model *)

MaxClaims == 2
MaxJobs == 1
MaxPoints == 45
MaxEarnings == 60
MaxLedgerPoints == 12
MaxLedgerClaims == 1
MaxBlogs == 1
MaxResources == 1
MaxProducts == 1
MaxEntries == 2
MaxContentPoints == 2
MaxAuditEarnings == 30
MaxRaceJobs == 2

----------------------------------------------------------------------------
(* Users, inputs *)

Contributors == {"c1", "c2"}
Admin == "admin"
UserIds == Contributors \cup {Admin}
Anonymous == "anonymous"
Actors == UserIds \cup {Anonymous}
NoUser == "nobody"

\* balances a contributor can have earned before the first modelled request
InitPoints == {0, 35}

\* req.body.points = "constructor": not a number, but a key that the object
\* literal validMilestones inherits; it stands in the model as this value
InheritedKey == -1

\* req.body.points
ReqPoints == {7, 10, 25, 50, InheritedKey}

\* userSchema.role
UserRoles ==
  {"super_admin", "resource_poster", "job_poster", "blog_poster",
   "tech_blog_poster", "digital_product_poster", "others"}
NoRole == "undefined"
\* req.body.role: a role of the enum, the super admin's, a string that is not
\* in the enum, and none
ReqRoles == {"blog_poster", "super_admin", "moderator", NoRole}

ClaimStatuses == {"pending", "processing", "paid", "rejected"}
NoStatus == "undefined"
\* req.body.status
ReqStatuses == ClaimStatuses \cup {NoStatus}

validMilestones == (10 :> 15) @@ (25 :> 30) @@ (50 :> 60) @@ (100 :> 120)

\* !validMilestones[points]: the lookup is truthy for the table's own keys and
\* for the inherited ones
isValidMilestone(points) ==
  points \in DOMAIN validMilestones \/ points = InheritedKey

\* claimSchema.points: a Number of the enum
claimSchemaAccepts(points) == points \in {10, 25, 50, 100}

----------------------------------------------------------------------------
(* Documents *)

User(role, points) ==
  [role |-> role, status |-> "approved", points |-> points,
   totalEarnings |-> 0, claimedMilestones |-> <<>>]

\* what User.findById resolves to when no document has the id: null
NoUserDoc ==
  [role |-> "none", status |-> "none", points |-> 0, totalEarnings |-> 0,
   claimedMilestones |-> <<>>]

Claim(uid, points) ==
  [user |-> uid, points |-> points, amount |-> validMilestones[points],
   status |-> "pending"]

Job(uid) == [postedBy |-> uid, isDeleted |-> FALSE]

\* what is left of a job after Job.findByIdAndDelete
NoJob == [postedBy |-> NoUser, isDeleted |-> FALSE]

Blog(uid) == [author |-> uid, isDeleted |-> FALSE]

\* what is left of a blog after Blog.findByIdAndDelete
NoBlog == [author |-> NoUser, isDeleted |-> FALSE]

Resource(uid) == [postedBy |-> uid, isDeleted |-> FALSE]

\* what is left of a resource after Resource.findByIdAndDelete
NoResource == [postedBy |-> NoUser, isDeleted |-> FALSE]

DigitalProduct(uid) == [postedBy |-> uid]

\* what is left of a product after DigitalProduct.findByIdAndDelete
NoProduct == [postedBy |-> NoUser]

Response(op, code, msg) == [op |-> op, code |-> code, msg |-> msg]

\* Array.prototype.includes
includes(arr, x) == \E i \in DOMAIN arr : arr[i] = x

filterOut_nothing(arr, x) == arr

\* arr.filter(m => m !== x)
filterOut(arr, x) == SelectSeq(arr, LAMBDA m : m # x)

----------------------------------------------------------------------------
(* Middleware *)

protect_anyStatus(actor) ==
  IF actor \notin UserIds \/ users[actor] = NoUserDoc THEN 401 ELSE 0

\* protect: 0 when the request goes on to the next handler, else the status
protect(actor) ==
  IF actor \notin UserIds \/ users[actor] = NoUserDoc THEN 401
  ELSE IF users[actor].status # "approved" /\ users[actor].role # "super_admin"
    THEN 403
  ELSE 0

superAdminOnly_open(actor) == 0

superAdminOnly(actor) ==
  IF actor \in UserIds /\ users[actor].role = "super_admin" THEN 0 ELSE 403

canPostJobs(actor) ==
  IF users[actor].role \in {"super_admin", "job_poster"} THEN 0 ELSE 403

canPostResources(actor) ==
  IF users[actor].role \in {"super_admin", "resource_poster"} THEN 0 ELSE 403

canPostBlogs(actor) ==
  IF users[actor].role \in {"super_admin", "blog_poster", "tech_blog_poster"}
    THEN 0 ELSE 403

canPostProducts(actor) ==
  IF users[actor].role \in {"super_admin", "digital_product_poster"}
    THEN 0 ELSE 403

----------------------------------------------------------------------------
(* Store calls of the claim handlers *)

\* Claim.findOne({ user, status: 'pending' })
findPendingClaim(C, uid) ==
  \E i \in DOMAIN C : C[i].user = uid /\ C[i].status = "pending"

ClaimCreate_pointsAsAmount(C, uid, points) ==
  Append(C, [Claim(uid, points) EXCEPT !.amount = points])

\* Claim.create({ user, points, amount })
ClaimCreate(C, uid, points) == Append(C, Claim(uid, points))

\* createClaim's user.save(): $set points, $push claimedMilestones
saveClaimedUser(U, uid, doc, points) ==
  [U EXCEPT ![uid].points = doc.points - points,
            ![uid].claimedMilestones = Append(@, points)]

\* claim.status = status || claim.status
newStatus(doc, status) == IF status = NoStatus THEN doc.status ELSE status

\* updateClaim's claim.save(): $set status when the assignment changed it
saveClaimStatus(C, cid, doc, status) ==
  [C EXCEPT ![cid].status =
     IF newStatus(doc, status) = doc.status THEN @ ELSE newStatus(doc, status)]

savePaidUser_points(U, uid, doc, claim) ==
  [U EXCEPT ![uid].totalEarnings = doc.totalEarnings + claim.points]

\* updateClaim's user.save() of the paid branch: $set totalEarnings
savePaidUser(U, uid, doc, claim) ==
  [U EXCEPT ![uid].totalEarnings = doc.totalEarnings + claim.amount]

saveRejectedUser_keepsMilestone(U, uid, doc, claim) ==
  [U EXCEPT ![uid].points = doc.points + claim.points]

\* updateClaim's user.save() of the rejected branch: $set points and, when the
\* filter removed something, $set claimedMilestones
saveRejectedUser(U, uid, doc, claim) ==
  [U EXCEPT ![uid].points = doc.points + claim.points,
            ![uid].claimedMilestones =
               IF includes(doc.claimedMilestones, claim.points)
                 THEN filterOut(doc.claimedMilestones, claim.points)
                 ELSE @]

incPoints_double(U, uid, d) == [U EXCEPT ![uid].points = @ + 2 * d]

\* User.findByIdAndUpdate(id, { $inc: { points: d } })
incPoints(U, uid, d) == [U EXCEPT ![uid].points = @ + d]

floorPoints_missing(U, uid) == U

\* the floor of the delete handlers: if (updatedUser.points < 0) set points 0
floorPoints(U, uid) ==
  IF U[uid].points < 0 THEN [U EXCEPT ![uid].points = 0] ELSE U

----------------------------------------------------------------------------
(* Handlers run to completion.  fail names the store call that throws.    *)

Out(U, C, code, msg) == [users |-> U, claims |-> C, code |-> code, msg |-> msg]

\* user.claimedMilestones && user.claimedMilestones.includes(points)
alreadyClaimed_skipped(user, points) == FALSE

alreadyClaimed(user, points) == includes(user.claimedMilestones, points)

insufficientPoints_never(user, points) == FALSE

\* user.points < points; a comparison with a non-number is false
insufficientPoints(user, points) ==
  points # InheritedKey /\ user.points < points

CreateClaimCalls ==
  {"User.findById", "Claim.findOne", "Claim.create", "user.save", "Claim.populate"}

\* createClaim over the store (U, C)
createClaimOn(U, C, uid, points, fail) ==
  LET user == U[uid]
      created == ClaimCreate(C, uid, points)
      saved == saveClaimedUser(U, uid, user, points)
  IN
  IF ~isValidMilestone(points) THEN Out(U, C, 400, "InvalidMilestone")
  ELSE IF fail = "User.findById" THEN Out(U, C, 500, "InternalError")
  ELSE IF alreadyClaimed(user, points)
    THEN Out(U, C, 400, "AlreadyClaimed")
  ELSE IF insufficientPoints(user, points)
    THEN Out(U, C, 400, "InsufficientBalance")
  ELSE IF fail = "Claim.findOne" THEN Out(U, C, 500, "InternalError")
  ELSE IF findPendingClaim(C, uid)
    THEN Out(U, C, 400, "ClaimAlreadyPending")
  ELSE IF fail = "Claim.create" \/ ~claimSchemaAccepts(points)
    THEN Out(U, C, 500, "InternalError")
  ELSE IF fail = "user.save" THEN Out(U, created, 500, "InternalError")
  ELSE IF fail = "Claim.populate" THEN Out(saved, created, 500, "InternalError")
  ELSE Out(saved, created, 201, "Created")

createClaim(uid, points, fail) == createClaimOn(users, claims, uid, points, fail)

UpdateClaimCalls ==
  {"Claim.findById", "claim.save", "User.findById", "user.save", "Claim.populate"}

\* if (status === 'paid')
paidBranch(status) == status = "paid"

rejectedBranch_processing(status) == status \in {"rejected", "processing"}

\* if (status === 'rejected')
rejectedBranch(status) == status = "rejected"

\* updateClaim over the store (U, C).  The claim of a deleted user is
\* populated with user null: claim.user._id throws after claim.save.
updateClaimOn(U, C, actor, cid, status, fail) ==
  IF fail = "Claim.findById" THEN Out(U, C, 500, "InternalError")
  ELSE IF cid \notin DOMAIN C THEN Out(U, C, 404, "ClaimNotFound")
  ELSE
    LET claim == C[cid]
        savedClaims == saveClaimStatus(C, cid, claim, status)
        user == U[claim.user]
        loadsUser == paidBranch(status) \/ rejectedBranch(status)
    IN
    IF fail = "claim.save" \/ newStatus(claim, status) \notin ClaimStatuses
      THEN Out(U, C, 500, "InternalError")
    ELSE IF loadsUser /\ (fail \in {"User.findById", "user.save"} \/ user = NoUserDoc)
      THEN Out(U, savedClaims, 500, "InternalError")
    ELSE
      LET paidUsers ==
            IF paidBranch(status) THEN savePaidUser(U, claim.user, user, claim)
            ELSE U
          savedUsers ==
            IF rejectedBranch(status)
              THEN saveRejectedUser(paidUsers, claim.user, paidUsers[claim.user], claim)
              ELSE paidUsers
      IN IF fail = "Claim.populate"
           THEN Out(savedUsers, savedClaims, 500, "InternalError")
           ELSE Out(savedUsers, savedClaims, 200, "OK")

updateClaim(actor, cid, status, fail) ==
  updateClaimOn(users, claims, actor, cid, status, fail)

earnsPoints_everyone(user) == TRUE

\* req.user.role !== 'super_admin'
earnsPoints(user) == user.role # "super_admin"

\* createJob: Job.create, then $inc points by 1 unless super_admin
createJob(uid) ==
  [jobs |-> Append(jobs, Job(uid)),
   users |-> IF earnsPoints(users[uid]) THEN incPoints(users, uid, 1)
             ELSE users,
   code |-> 201, msg |-> "Created"]

\* deleteJob: super_admin removes the job; its owner soft-deletes it and is
\* debited one point, floored at 0
deleteJob(uid, jid) ==
  IF jid \notin DOMAIN jobs \/ jobs[jid] = NoJob
    THEN [jobs |-> jobs, users |-> users, code |-> 404, msg |-> "JobNotFound"]
  ELSE IF jobs[jid].postedBy # uid /\ users[uid].role # "super_admin"
    THEN [jobs |-> jobs, users |-> users, code |-> 403, msg |-> "Unauthorized"]
  ELSE IF users[uid].role = "super_admin"
    THEN [jobs |-> [jobs EXCEPT ![jid] = NoJob], users |-> users,
          code |-> 200, msg |-> "OK"]
  ELSE [jobs |-> [jobs EXCEPT ![jid].isDeleted = TRUE],
        users |-> floorPoints(incPoints(users, jobs[jid].postedBy, -1),
                              jobs[jid].postedBy),
        code |-> 200, msg |-> "OK"]

\* createBlog: Blog.create, then $inc points by 1 unless super_admin
createBlog(uid) ==
  [blogs |-> Append(blogs, Blog(uid)),
   users |-> IF earnsPoints(users[uid]) THEN incPoints(users, uid, 1)
             ELSE users,
   code |-> 201, msg |-> "Created"]

\* deleteBlog: super_admin removes the blog; its author soft-deletes it and
\* is debited one point, floored at 0
deleteBlog(uid, bid) ==
  IF bid \notin DOMAIN blogs \/ blogs[bid] = NoBlog
    THEN [blogs |-> blogs, users |-> users, code |-> 404, msg |-> "BlogNotFound"]
  ELSE IF blogs[bid].author # uid /\ users[uid].role # "super_admin"
    THEN [blogs |-> blogs, users |-> users, code |-> 403, msg |-> "Unauthorized"]
  ELSE IF users[uid].role = "super_admin"
    THEN [blogs |-> [blogs EXCEPT ![bid] = NoBlog], users |-> users,
          code |-> 200, msg |-> "OK"]
  ELSE [blogs |-> [blogs EXCEPT ![bid].isDeleted = TRUE],
        users |-> IF earnsPoints(users[uid])
                    THEN floorPoints(incPoints(users, blogs[bid].author, -1),
                                     blogs[bid].author)
                    ELSE users,
        code |-> 200, msg |-> "OK"]

\* createResource: Resource.create, then $inc points by 1 unless super_admin
createResource(uid) ==
  [resources |-> Append(resources, Resource(uid)),
   users |-> IF earnsPoints(users[uid]) THEN incPoints(users, uid, 1)
             ELSE users,
   code |-> 201, msg |-> "Created"]

\* deleteResource: as deleteBlog, for a resource and its poster
deleteResource(uid, rid) ==
  IF rid \notin DOMAIN resources \/ resources[rid] = NoResource
    THEN [resources |-> resources, users |-> users,
          code |-> 404, msg |-> "ResourceNotFound"]
  ELSE IF resources[rid].postedBy # uid /\ users[uid].role # "super_admin"
    THEN [resources |-> resources, users |-> users,
          code |-> 403, msg |-> "Unauthorized"]
  ELSE IF users[uid].role = "super_admin"
    THEN [resources |-> [resources EXCEPT ![rid] = NoResource], users |-> users,
          code |-> 200, msg |-> "OK"]
  ELSE [resources |-> [resources EXCEPT ![rid].isDeleted = TRUE],
        users |-> IF earnsPoints(users[uid])
                    THEN floorPoints(incPoints(users, resources[rid].postedBy, -1),
                                     resources[rid].postedBy)
                    ELSE users,
        code |-> 200, msg |-> "OK"]

\* createProduct: DigitalProduct.create, then $inc points by 1 unless
\* super_admin
createProduct(uid) ==
  [products |-> Append(products, DigitalProduct(uid)),
   users |-> IF earnsPoints(users[uid]) THEN incPoints(users, uid, 1)
             ELSE users,
   code |-> 201, msg |-> "Created"]

\* deleteProduct: the product is removed; unless the caller is super_admin
\* its poster is debited one point, floored at 0
deleteProduct(uid, pid) ==
  IF pid \notin DOMAIN products \/ products[pid] = NoProduct
    THEN [products |-> products, users |-> users,
          code |-> 404, msg |-> "ProductNotFound"]
  ELSE IF products[pid].postedBy # uid /\ users[uid].role # "super_admin"
    THEN [products |-> products, users |-> users,
          code |-> 403, msg |-> "Unauthorized"]
  ELSE [products |-> [products EXCEPT ![pid] = NoProduct],
        users |-> IF earnsPoints(users[uid])
                    THEN floorPoints(incPoints(users, products[pid].postedBy, -1),
                                     products[pid].postedBy)
                    ELSE users,
        code |-> 200, msg |-> "OK"]

----------------------------------------------------------------------------
(* The read handlers of jobs, blogs and resources: the entries in the      *)
(* response.  Category, search and page select among these entries.        *)

\* if (!req.user || req.user.role !== 'super_admin')
\*   query.isDeleted = { $ne: true }
\* req.user is set by optionalAuth or protect
hidesDeleted(actor) ==
  actor \notin UserIds \/ users[actor].role # "super_admin"

\* getJobs: Job.find(query)
getJobs(actor) ==
  {i \in DOMAIN jobs :
     jobs[i] # NoJob /\ (hidesDeleted(actor) => ~jobs[i].isDeleted)}

\* getJobsGrouped: Job.find({ category }) for each category
getJobsGrouped == {i \in DOMAIN jobs : jobs[i] # NoJob}

\* getJob: Job.findById(req.params.id)
getJob(id) == {i \in DOMAIN jobs : i = id /\ jobs[i] # NoJob}

\* getJobBySlug: Job.findOne({ slug }); a job's slug stands as its id
getJobBySlug(slug) == {i \in DOMAIN jobs : i = slug /\ jobs[i] # NoJob}

\* getMyJobs: Job.find({ postedBy: req.user.id, isDeleted: { $ne: true } })
getMyJobs(actor) ==
  {i \in DOMAIN jobs : jobs[i].postedBy = actor /\ ~jobs[i].isDeleted}

\* getBlogs: the route has no optionalAuth, req.user is not set
getBlogs == {i \in DOMAIN blogs : blogs[i] # NoBlog /\ ~blogs[i].isDeleted}

\* getFeaturedBlogs: Blog.find({ isPublished: true, isFeatured: true })
getFeaturedBlogs == {i \in DOMAIN blogs : blogs[i] # NoBlog}

\* getBlogBySlug: Blog.findOne({ slug, isPublished: true })
getBlogBySlug(slug) == {i \in DOMAIN blogs : i = slug /\ blogs[i] # NoBlog}

\* getMyBlogs: Blog.find({ author: req.user.id, isDeleted: { $ne: true } })
getMyBlogs(actor) ==
  {i \in DOMAIN blogs : blogs[i].author = actor /\ ~blogs[i].isDeleted}

\* getResources: Resource.find(query)
getResources(actor) ==
  {i \in DOMAIN resources :
     resources[i] # NoResource /\ (hidesDeleted(actor) => ~resources[i].isDeleted)}

\* getResourcesGrouped: Resource.find({ category }) for each category
getResourcesGrouped == {i \in DOMAIN resources : resources[i] # NoResource}

\* getResource: Resource.findById(req.params.id)
getResource(id) ==
  {i \in DOMAIN resources : i = id /\ resources[i] # NoResource}

\* getMyResources: Resource.find({ postedBy: req.user.id,
\* isDeleted: { $ne: true } })
getMyResources(actor) ==
  {i \in DOMAIN resources :
     resources[i].postedBy = actor /\ ~resources[i].isDeleted}

----------------------------------------------------------------------------
(* authController.signup and the handlers of userController *)

UserOut(U, code, msg) == [users |-> U, code |-> code, msg |-> msg]

\* user.role === 'super_admin'
isSuperAdmin(user) == user.role = "super_admin"

\* signup: the email must be free and the role not super_admin; User.create
\* validates the role against the enum; the account starts pending
signup(uid, role) ==
  IF users[uid] # NoUserDoc THEN UserOut(users, 400, "UserExists")
  ELSE IF role = "super_admin" THEN UserOut(users, 403, "CannotCreateSuperAdmin")
  ELSE IF role # NoRole /\ role \notin UserRoles
    THEN UserOut(users, 500, "InternalError")
  ELSE UserOut([users EXCEPT ![uid] =
                  [User(IF role = NoRole THEN "others" ELSE role, 0)
                     EXCEPT !.status = "pending"]],
               201, "Created")

\* approveUser: the status is set unless the user is missing or a super admin
approveUser(id) ==
  IF users[id] = NoUserDoc THEN UserOut(users, 404, "UserNotFound")
  ELSE IF isSuperAdmin(users[id]) THEN UserOut(users, 403, "CannotModifySuperAdmin")
  ELSE UserOut([users EXCEPT ![id].status = "approved"], 200, "OK")

\* rejectUser
rejectUser(id) ==
  IF users[id] = NoUserDoc THEN UserOut(users, 404, "UserNotFound")
  ELSE IF isSuperAdmin(users[id]) THEN UserOut(users, 403, "CannotModifySuperAdmin")
  ELSE UserOut([users EXCEPT ![id].status = "rejected"], 200, "OK")

\* blockUser
blockUser(id) ==
  IF users[id] = NoUserDoc THEN UserOut(users, 404, "UserNotFound")
  ELSE IF isSuperAdmin(users[id]) THEN UserOut(users, 403, "CannotModifySuperAdmin")
  ELSE UserOut([users EXCEPT ![id].status = "blocked"], 200, "OK")

\* unblockUser: the status is set to approved; there is no super admin test
unblockUser(id) ==
  IF users[id] = NoUserDoc THEN UserOut(users, 404, "UserNotFound")
  ELSE UserOut([users EXCEPT ![id].status = "approved"], 200, "OK")

changeUserRole_anyRole(id, role) ==
  IF users[id] = NoUserDoc THEN UserOut(users, 404, "UserNotFound")
  ELSE IF role # NoRole /\ role \notin UserRoles
    THEN UserOut(users, 500, "InternalError")
  ELSE UserOut([users EXCEPT ![id].role = IF role = NoRole THEN "others" ELSE role],
               200, "OK")

\* changeUserRole: refused for a super admin and for the role super_admin;
\* user.save validates the role against the enum; a role that is not given
\* is unset and reads as the default
changeUserRole(id, role) ==
  IF users[id] = NoUserDoc THEN UserOut(users, 404, "UserNotFound")
  ELSE IF isSuperAdmin(users[id])
    THEN UserOut(users, 403, "CannotModifySuperAdmin")
  ELSE IF role = "super_admin" THEN UserOut(users, 403, "CannotAssignSuperAdmin")
  ELSE IF role # NoRole /\ role \notin UserRoles
    THEN UserOut(users, 500, "InternalError")
  ELSE UserOut([users EXCEPT ![id].role = IF role = NoRole THEN "others" ELSE role],
               200, "OK")

deleteUser_withClaims(id) ==
  IF users[id] = NoUserDoc
    THEN [users |-> users, claims |-> claims, code |-> 404, msg |-> "UserNotFound"]
  ELSE IF isSuperAdmin(users[id])
    THEN [users |-> users, claims |-> claims, code |-> 403,
          msg |-> "CannotModifySuperAdmin"]
  ELSE [users |-> [users EXCEPT ![id] = NoUserDoc],
        claims |-> SelectSeq(claims, LAMBDA c : c.user # id),
        code |-> 200, msg |-> "OK"]

\* deleteUser: User.findByIdAndDelete unless the user is missing or a super
\* admin; no other collection is touched
deleteUser(id) ==
  IF users[id] = NoUserDoc
    THEN [users |-> users, claims |-> claims, code |-> 404, msg |-> "UserNotFound"]
  ELSE IF isSuperAdmin(users[id])
    THEN [users |-> users, claims |-> claims, code |-> 403,
          msg |-> "CannotModifySuperAdmin"]
  ELSE [users |-> [users EXCEPT ![id] = NoUserDoc], claims |-> claims,
        code |-> 200, msg |-> "OK"]

----------------------------------------------------------------------------
(* Requests in flight (SpecConc); none under the other specifications *)

ReqIds == {"r1", "r2"}

NoDoc == [points |-> 0, totalEarnings |-> 0, claimedMilestones |-> <<>>,
          stale |-> FALSE]
NoClaim == [user |-> NoUser, points |-> 0, amount |-> 0, status |-> NoStatus]

\* with: the requests that were in flight at some time during this one;
\* snap: the balance of the user concerned when the request arrived
Idle ==
  [pc |-> "idle", op |-> "none", actor |-> NoUser, points |-> 0, cid |-> 0,
   jid |-> 0, status |-> NoStatus, user |-> NoDoc, claim |-> NoClaim, code |-> 0,
   msg |-> "none", with |-> {}, snap |-> NoDoc]

----------------------------------------------------------------------------
(* Routes: one action per route, the middleware chain included *)

Refused(op, code) ==
  /\ resp' = Response(op, code, "Unauthorized")
  /\ UNCHANGED <<users, claims, jobs, blogs, resources, products, reqs>>

WithinBounds(U) ==
  \A u \in UserIds : U[u].points <= MaxPoints /\ U[u].totalEarnings <= MaxEarnings

\* POST /api/claims: protect, createClaim
ClaimRoute(actor, Fails) ==
  IF protect(actor) # 0 THEN Refused("createClaim", protect(actor))
  ELSE \E points \in ReqPoints, fail \in Fails :
       LET out == createClaim(actor, points, fail) IN
       /\ Len(out.claims) <= MaxClaims
       /\ users' = out.users
       /\ claims' = out.claims
       /\ resp' = Response("createClaim", out.code, out.msg)
       /\ UNCHANGED <<jobs, blogs, resources, products, reqs>>

\* PUT /api/claims/:id: protect, superAdminOnly, updateClaim
ClaimIdRoute(actor, Fails) ==
  IF protect(actor) # 0 THEN Refused("updateClaim", protect(actor))
  ELSE IF superAdminOnly(actor) # 0
    THEN Refused("updateClaim", superAdminOnly(actor))
  ELSE \E cid \in 1..MaxClaims, status \in ReqStatuses, fail \in Fails :
       LET out == updateClaim(actor, cid, status, fail) IN
       /\ WithinBounds(out.users)
       /\ users' = out.users
       /\ claims' = out.claims
       /\ resp' = Response("updateClaim", out.code, out.msg)
       /\ UNCHANGED <<jobs, blogs, resources, products, reqs>>

\* POST /api/jobs: protect, canPostJobs, createJob
JobRoute(actor) ==
  IF protect(actor) # 0 THEN Refused("createJob", protect(actor))
  ELSE IF canPostJobs(actor) # 0 THEN Refused("createJob", canPostJobs(actor))
  ELSE LET out == createJob(actor) IN
       /\ Len(out.jobs) <= MaxJobs
       /\ WithinBounds(out.users)
       /\ users' = out.users
       /\ jobs' = out.jobs
       /\ resp' = Response("createJob", out.code, out.msg)
       /\ UNCHANGED <<claims, reqs, blogs, resources, products>>

\* DELETE /api/jobs/:id: protect, canPostJobs, deleteJob
JobIdRoute(actor) ==
  IF protect(actor) # 0 THEN Refused("deleteJob", protect(actor))
  ELSE IF canPostJobs(actor) # 0 THEN Refused("deleteJob", canPostJobs(actor))
  ELSE \E jid \in 1..MaxJobs :
       LET out == deleteJob(actor, jid) IN
       /\ users' = out.users
       /\ jobs' = out.jobs
       /\ resp' = Response("deleteJob", out.code, out.msg)
       /\ UNCHANGED <<claims, reqs, blogs, resources, products>>

\* POST /api/blogs: protect, canPostBlogs, createBlog
BlogRoute(actor) ==
  IF protect(actor) # 0 THEN Refused("createBlog", protect(actor))
  ELSE IF canPostBlogs(actor) # 0 THEN Refused("createBlog", canPostBlogs(actor))
  ELSE LET out == createBlog(actor) IN
       /\ Len(out.blogs) <= MaxBlogs
       /\ users' = out.users
       /\ blogs' = out.blogs
       /\ resp' = Response("createBlog", out.code, out.msg)
       /\ UNCHANGED <<claims, jobs, reqs, resources, products>>

\* DELETE /api/blogs/:id: protect, canPostBlogs, deleteBlog
BlogIdRoute(actor) ==
  IF protect(actor) # 0 THEN Refused("deleteBlog", protect(actor))
  ELSE IF canPostBlogs(actor) # 0 THEN Refused("deleteBlog", canPostBlogs(actor))
  ELSE \E bid \in 1..MaxBlogs :
       LET out == deleteBlog(actor, bid) IN
       /\ users' = out.users
       /\ blogs' = out.blogs
       /\ resp' = Response("deleteBlog", out.code, out.msg)
       /\ UNCHANGED <<claims, jobs, reqs, resources, products>>

\* POST /api/resources: protect, canPostResources, createResource
ResourceRoute(actor) ==
  IF protect(actor) # 0 THEN Refused("createResource", protect(actor))
  ELSE IF canPostResources(actor) # 0
    THEN Refused("createResource", canPostResources(actor))
  ELSE LET out == createResource(actor) IN
       /\ Len(out.resources) <= MaxResources
       /\ users' = out.users
       /\ resources' = out.resources
       /\ resp' = Response("createResource", out.code, out.msg)
       /\ UNCHANGED <<claims, jobs, reqs, blogs, products>>

\* DELETE /api/resources/:id: protect, canPostResources, deleteResource
ResourceIdRoute(actor) ==
  IF protect(actor) # 0 THEN Refused("deleteResource", protect(actor))
  ELSE IF canPostResources(actor) # 0
    THEN Refused("deleteResource", canPostResources(actor))
  ELSE \E rid \in 1..MaxResources :
       LET out == deleteResource(actor, rid) IN
       /\ users' = out.users
       /\ resources' = out.resources
       /\ resp' = Response("deleteResource", out.code, out.msg)
       /\ UNCHANGED <<claims, jobs, reqs, blogs, products>>

\* POST /api/products: protect, canPostProducts, createProduct
ProductRoute(actor) ==
  IF protect(actor) # 0 THEN Refused("createProduct", protect(actor))
  ELSE IF canPostProducts(actor) # 0
    THEN Refused("createProduct", canPostProducts(actor))
  ELSE LET out == createProduct(actor) IN
       /\ Len(out.products) <= MaxProducts
       /\ users' = out.users
       /\ products' = out.products
       /\ resp' = Response("createProduct", out.code, out.msg)
       /\ UNCHANGED <<claims, jobs, reqs, blogs, resources>>

\* DELETE /api/products/:id: protect, canPostProducts, deleteProduct
ProductIdRoute(actor) ==
  IF protect(actor) # 0 THEN Refused("deleteProduct", protect(actor))
  ELSE IF canPostProducts(actor) # 0
    THEN Refused("deleteProduct", canPostProducts(actor))
  ELSE \E pid \in 1..MaxProducts :
       LET out == deleteProduct(actor, pid) IN
       /\ users' = out.users
       /\ products' = out.products
       /\ resp' = Response("deleteProduct", out.code, out.msg)
       /\ UNCHANGED <<claims, jobs, reqs, blogs, resources>>

\* router.use(protect, superAdminOnly) of the user routes: 0 when the request
\* goes on to its handler
usersRouterUse(actor) ==
  IF protect(actor) # 0 THEN protect(actor) ELSE superAdminOnly(actor)

\* the response of a user handler and the users it saved
UserAnswer(op, out) ==
  /\ users' = out.users
  /\ resp' = Response(op, out.code, out.msg)
  /\ UNCHANGED <<claims, jobs, blogs, resources, products, reqs>>

\* POST /api/auth/signup: signup.  The _id of the new document is one that
\* no document refers to.
SignupRoute ==
  \E uid \in UserIds, role \in ReqRoles :
    /\ users[uid] = NoUserDoc
         => /\ \A i \in DOMAIN claims : claims[i].user # uid
            /\ \A i \in DOMAIN jobs : jobs[i].postedBy # uid
            /\ \A i \in DOMAIN blogs : blogs[i].author # uid
            /\ \A i \in DOMAIN resources : resources[i].postedBy # uid
            /\ \A i \in DOMAIN products : products[i].postedBy # uid
    /\ UserAnswer("signup", signup(uid, role))

\* PUT /api/users/:id/approve: protect, superAdminOnly, approveUser
ApproveRoute(actor) ==
  IF usersRouterUse(actor) # 0 THEN Refused("approveUser", usersRouterUse(actor))
  ELSE \E id \in UserIds : UserAnswer("approveUser", approveUser(id))

\* PUT /api/users/:id/reject: protect, superAdminOnly, rejectUser
RejectRoute(actor) ==
  IF usersRouterUse(actor) # 0 THEN Refused("rejectUser", usersRouterUse(actor))
  ELSE \E id \in UserIds : UserAnswer("rejectUser", rejectUser(id))

\* PUT /api/users/:id/block: protect, superAdminOnly, blockUser
BlockRoute(actor) ==
  IF usersRouterUse(actor) # 0 THEN Refused("blockUser", usersRouterUse(actor))
  ELSE \E id \in UserIds : UserAnswer("blockUser", blockUser(id))

\* PUT /api/users/:id/unblock: protect, superAdminOnly, unblockUser
UnblockRoute(actor) ==
  IF usersRouterUse(actor) # 0 THEN Refused("unblockUser", usersRouterUse(actor))
  ELSE \E id \in UserIds : UserAnswer("unblockUser", unblockUser(id))

\* PUT /api/users/:id/role: protect, superAdminOnly, changeUserRole
RoleRoute(actor) ==
  IF usersRouterUse(actor) # 0
    THEN Refused("changeUserRole", usersRouterUse(actor))
  ELSE \E id \in UserIds, role \in ReqRoles :
         UserAnswer("changeUserRole", changeUserRole(id, role))

\* DELETE /api/users/:id: protect, superAdminOnly, deleteUser
UserIdRoute(actor) ==
  IF usersRouterUse(actor) # 0 THEN Refused("deleteUser", usersRouterUse(actor))
  ELSE \E id \in UserIds :
         LET out == deleteUser(id) IN
         /\ users' = out.users
         /\ claims' = out.claims
         /\ resp' = Response("deleteUser", out.code, out.msg)
         /\ UNCHANGED <<jobs, blogs, resources, products, reqs>>

PostClaim == \E actor \in Actors : ClaimRoute(actor, {"none"})

PutClaim == \E actor \in Actors : ClaimIdRoute(actor, {"none"})

InitWith(Points) ==
  /\ \E pts \in Points :
       users = [u \in UserIds |->
                  IF u = Admin THEN User("super_admin", 0)
                  ELSE User("job_poster", pts[u])]
  /\ claims = <<>>
  /\ jobs = <<>>
  /\ blogs = <<>>
  /\ resources = <<>>
  /\ products = <<>>
  /\ resp = Response("none", 0, "none")
  /\ reqs = [r \in ReqIds |-> Idle]

\* c1 has earned 0 or 35 points so far, c2 is a new contributor
Init == InitWith({("c1" :> p) @@ ("c2" :> 0) : p \in InitPoints})

Next == PostClaim \/ PutClaim

Spec == Init /\ [][Next]_vars

\* the claim routes over a store whose calls may throw
FailPostClaim ==
  \E actor \in Actors : ClaimRoute(actor, CreateClaimCalls \cup {"none"})

FailPutClaim ==
  \E actor \in Actors : ClaimIdRoute(actor, UpdateClaimCalls \cup {"none"})

NextFail == FailPostClaim \/ FailPutClaim

SpecFail == Init /\ [][NextFail]_vars

\* the claim routes together with the job routes that credit and debit points
InitLedger == InitWith({("c1" :> p) @@ ("c2" :> 0) : p \in {0, 10}})

LedgerActors == {"c1", Admin}

LedgerPostClaim == \E actor \in LedgerActors : ClaimRoute(actor, {"none"})

LedgerPutClaim == \E actor \in LedgerActors : ClaimIdRoute(actor, {"none"})

PostJob == \E actor \in LedgerActors : JobRoute(actor)

DeleteJob == \E actor \in LedgerActors : JobIdRoute(actor)

NextLedger ==
  /\ LedgerPostClaim \/ LedgerPutClaim \/ PostJob \/ DeleteJob
  /\ \A u \in UserIds : users'[u].points <= MaxLedgerPoints
  /\ Len(claims') <= MaxLedgerClaims

SpecLedger == InitLedger /\ [][NextLedger]_vars

\* the claim routes when c2's account is not approved
AccountStatuses == {"pending", "approved", "rejected", "blocked"}

InitAccounts ==
  /\ \E status \in AccountStatuses \ {"approved"} :
       users = [u \in UserIds |->
                  IF u = Admin THEN User("super_admin", 0)
                  ELSE IF u = "c1" THEN User("job_poster", 10)
                  ELSE [User("job_poster", 10) EXCEPT !.status = status]]
  /\ claims = <<>>
  /\ jobs = <<>>
  /\ blogs = <<>>
  /\ resources = <<>>
  /\ products = <<>>
  /\ resp = Response("none", 0, "none")
  /\ reqs = [r \in ReqIds |-> Idle]

SpecAccounts == InitAccounts /\ [][Next]_vars

\* the content routes: two contributors of one poster role and the super admin
PosterRoles ==
  {"job_poster", "resource_poster", "blog_poster", "tech_blog_poster",
   "digital_product_poster"}

\* how c1 starts: with no points, with one point, or with no points left
\* after claiming the milestone 10 and one entry still posted
ContentStarts == {"none", "one", "spent"}

InitContent ==
  \E role \in PosterRoles, start \in ContentStarts :
    LET posted(kinds, doc) ==
          IF start = "spent" /\ role \in kinds THEN <<doc>> ELSE <<>>
    IN
    /\ users = [u \in UserIds |->
                  IF u = Admin THEN User("super_admin", 0)
                  ELSE IF u = "c2" THEN User(role, 0)
                  ELSE IF start = "spent"
                    THEN [User(role, 0) EXCEPT !.claimedMilestones = <<10>>]
                  ELSE User(role, IF start = "one" THEN 1 ELSE 0)]
    /\ claims = IF start = "spent" THEN <<Claim("c1", 10)>> ELSE <<>>
    /\ jobs = posted({"job_poster"}, Job("c1"))
    /\ blogs = posted({"blog_poster", "tech_blog_poster"}, Blog("c1"))
    /\ resources = posted({"resource_poster"}, Resource("c1"))
    /\ products = posted({"digital_product_poster"}, DigitalProduct("c1"))
    /\ resp = Response("none", 0, "none")
    /\ reqs = [r \in ReqIds |-> Idle]

ContentPostJob == \E actor \in Actors : JobRoute(actor)

ContentDeleteJob == \E actor \in Actors : JobIdRoute(actor)

PostBlog == \E actor \in Actors : BlogRoute(actor)

DeleteBlog == \E actor \in Actors : BlogIdRoute(actor)

PostResource == \E actor \in Actors : ResourceRoute(actor)

DeleteResource == \E actor \in Actors : ResourceIdRoute(actor)

PostProduct == \E actor \in Actors : ProductRoute(actor)

DeleteProduct == \E actor \in Actors : ProductIdRoute(actor)

NextContent ==
  /\ \/ ContentPostJob \/ ContentDeleteJob
     \/ PostBlog \/ DeleteBlog
     \/ PostResource \/ DeleteResource
     \/ PostProduct \/ DeleteProduct
  /\ \A u \in UserIds : users'[u].points <= MaxContentPoints
  /\ Len(jobs') + Len(blogs') + Len(resources') + Len(products') <= MaxEntries

SpecContent == InitContent /\ [][NextContent]_vars

\* signup and the user routes: c1 is an approved contributor, c2 has no
\* account yet
InitUsers ==
  /\ users = [u \in UserIds |->
                IF u = Admin THEN User("super_admin", 0)
                ELSE IF u = "c1" THEN User("job_poster", 10)
                ELSE NoUserDoc]
  /\ claims = <<>>
  /\ jobs = <<>>
  /\ blogs = <<>>
  /\ resources = <<>>
  /\ products = <<>>
  /\ resp = Response("none", 0, "none")
  /\ reqs = [r \in ReqIds |-> Idle]

NextUsers ==
  \/ SignupRoute
  \/ \E actor \in Actors : ApproveRoute(actor)
  \/ \E actor \in Actors : RejectRoute(actor)
  \/ \E actor \in Actors : BlockRoute(actor)
  \/ \E actor \in Actors : UnblockRoute(actor)
  \/ \E actor \in Actors : RoleRoute(actor)
  \/ \E actor \in Actors : UserIdRoute(actor)

SpecUsers == InitUsers /\ [][NextUsers]_vars

\* the claim routes together with the deletion of users, called by the
\* contributor c1, by the super admin and without a token
NextAudit ==
  /\ \E actor \in {"c1", Admin, Anonymous} :
       \/ ClaimRoute(actor, {"none"})
       \/ ClaimIdRoute(actor, {"none"})
       \/ UserIdRoute(actor)
  /\ \A u \in UserIds : users'[u].totalEarnings <= MaxAuditEarnings

SpecAudit == InitLedger /\ [][NextAudit]_vars

----------------------------------------------------------------------------
(* The claim handlers interleaving at their await points.  A request's pc *)
(* names the store call it is waiting for; a step is that call taking     *)
(* effect followed by the handler's code up to its next await.            *)

InFlight(r) == reqs[r].pc \notin {"idle", "done"}

\* the callers and the statuses of the interleaved requests
ConcActors == {"c1"}
ConcStatuses == {"processing", "paid", "rejected"}

\* the document User.findById resolves to
loadUser(uid) ==
  [points |-> users[uid].points, totalEarnings |-> users[uid].totalEarnings,
   claimedMilestones |-> users[uid].claimedMilestones, stale |-> FALSE]

\* the user whose document request r loads
DocOwner(r) ==
  IF reqs[r].op = "createClaim" THEN reqs[r].actor ELSE reqs[r].claim.user

HoldsUserDoc(r) ==
  \/ reqs[r].op = "createClaim" /\ reqs[r].pc \in {"Claim.findOne", "Claim.create", "user.save"}
  \/ reqs[r].op = "updateClaim" /\ reqs[r].pc = "user.save"

\* a save that writes claimedMilestones increments the document's version:
\* the copies other requests loaded before it are out of date
Bump(R, r, uid) ==
  [q \in ReqIds |->
     IF q # r /\ HoldsUserDoc(q) /\ DocOwner(q) = uid
       THEN [R[q] EXCEPT !.user.stale = TRUE]
       ELSE R[q]]

\* the response is sent: the request's documents are dropped
Finished(R, r, code, msg) ==
  [R EXCEPT ![r].pc = "done", ![r].code = code, ![r].msg = msg,
            ![r].user = NoDoc, ![r].claim = NoClaim]

Finish(r, code, msg) ==
  /\ reqs' = Finished(reqs, r, code, msg)
  /\ resp' = Response(reqs[r].op, code, msg)

\* request r arrives while the requests in flight go on
Arrive(r, req) ==
  [q \in ReqIds |->
     IF q = r THEN [req EXCEPT !.with = {o \in ReqIds \ {r} : InFlight(o)}]
     ELSE IF InFlight(q) THEN [reqs[q] EXCEPT !.with = @ \cup {r}]
     ELSE reqs[q]]

\* POST /api/claims up to createClaim's User.findById
StartCreateClaim(r) ==
  /\ reqs[r].pc = "idle"
  /\ \E actor \in ConcActors, points \in ReqPoints :
       LET req == [Idle EXCEPT !.op = "createClaim", !.actor = actor,
                               !.points = points, !.snap = loadUser(actor)]
           arrived == Arrive(r, req)
       IN IF protect(actor) # 0
            THEN /\ reqs' = Finished(arrived, r, protect(actor), "Unauthorized")
                 /\ resp' = Response("createClaim", protect(actor), "Unauthorized")
          ELSE IF ~isValidMilestone(points)
            THEN /\ reqs' = Finished(arrived, r, 400, "InvalidMilestone")
                 /\ resp' = Response("createClaim", 400, "InvalidMilestone")
          ELSE /\ reqs' = [arrived EXCEPT ![r].pc = "User.findById"]
               /\ UNCHANGED resp
  /\ UNCHANGED <<users, claims, jobs, blogs, resources, products>>

\* User.findById resolves; the milestone and balance checks; Claim.findOne
CreateClaimFindUser(r) ==
  /\ reqs[r].op = "createClaim" /\ reqs[r].pc = "User.findById"
  /\ LET user == loadUser(reqs[r].actor) IN
     IF alreadyClaimed(user, reqs[r].points)
       THEN Finish(r, 400, "AlreadyClaimed")
     ELSE IF insufficientPoints(user, reqs[r].points)
       THEN Finish(r, 400, "InsufficientBalance")
     ELSE /\ reqs' = [reqs EXCEPT ![r].user = user, ![r].pc = "Claim.findOne"]
          /\ UNCHANGED resp
  /\ UNCHANGED <<users, claims, jobs, blogs, resources, products>>

\* Claim.findOne resolves; Claim.create
CreateClaimFindPending(r) ==
  /\ reqs[r].op = "createClaim" /\ reqs[r].pc = "Claim.findOne"
  /\ IF findPendingClaim(claims, reqs[r].actor)
       THEN Finish(r, 400, "ClaimAlreadyPending")
       ELSE /\ reqs' = [reqs EXCEPT ![r].pc = "Claim.create"]
            /\ UNCHANGED resp
  /\ UNCHANGED <<users, claims, jobs, blogs, resources, products>>

\* Claim.create resolves; the points and the milestone change in the
\* handler's copy; user.save
CreateClaimCreate(r) ==
  /\ reqs[r].op = "createClaim" /\ reqs[r].pc = "Claim.create"
  /\ IF ~claimSchemaAccepts(reqs[r].points)
       THEN /\ Finish(r, 500, "InternalError")
            /\ UNCHANGED claims
       ELSE /\ Len(claims) < MaxClaims
            /\ claims' = ClaimCreate(claims, reqs[r].actor, reqs[r].points)
            /\ reqs' = [reqs EXCEPT ![r].pc = "user.save", ![r].cid = Len(claims')]
            /\ UNCHANGED resp
  /\ UNCHANGED <<users, jobs, blogs, resources, products>>

\* user.save resolves; the response
CreateClaimSave(r) ==
  /\ reqs[r].op = "createClaim" /\ reqs[r].pc = "user.save"
  /\ users' = saveClaimedUser(users, reqs[r].actor, reqs[r].user, reqs[r].points)
  /\ reqs' = Finished(Bump(reqs, r, reqs[r].actor), r, 201, "Created")
  /\ resp' = Response("createClaim", 201, "Created")
  /\ UNCHANGED <<claims, jobs, blogs, resources, products>>

\* PUT /api/claims/:id up to updateClaim's Claim.findById
StartUpdateClaim(r) ==
  /\ reqs[r].pc = "idle"
  /\ \E cid \in 1..MaxClaims, status \in ConcStatuses :
       LET req == [Idle EXCEPT !.op = "updateClaim", !.actor = Admin,
                               !.cid = cid, !.status = status,
                               !.snap = IF cid \in DOMAIN claims
                                          THEN loadUser(claims[cid].user)
                                          ELSE NoDoc]
           arrived == Arrive(r, req)
       IN IF protect(Admin) # 0 \/ superAdminOnly(Admin) # 0
            THEN /\ reqs' = Finished(arrived, r, 403, "Unauthorized")
                 /\ resp' = Response("updateClaim", 403, "Unauthorized")
          ELSE /\ reqs' = [arrived EXCEPT ![r].pc = "Claim.findById"]
               /\ UNCHANGED resp
  /\ UNCHANGED <<users, claims, jobs, blogs, resources, products>>

\* Claim.findById resolves; the status changes in the handler's copy; claim.save
UpdateClaimFindClaim(r) ==
  /\ reqs[r].op = "updateClaim" /\ reqs[r].pc = "Claim.findById"
  /\ IF reqs[r].cid \notin DOMAIN claims
       THEN Finish(r, 404, "ClaimNotFound")
       ELSE /\ reqs' = [reqs EXCEPT ![r].claim = claims[reqs[r].cid],
                                    ![r].pc = "claim.save"]
            /\ UNCHANGED resp
  /\ UNCHANGED <<users, claims, jobs, blogs, resources, products>>

\* claim.save resolves; User.findById of the paid or rejected branch
UpdateClaimSaveClaim(r) ==
  /\ reqs[r].op = "updateClaim" /\ reqs[r].pc = "claim.save"
  /\ claims' = saveClaimStatus(claims, reqs[r].cid, reqs[r].claim, reqs[r].status)
  /\ IF reqs[r].status \in {"paid", "rejected"}
       THEN /\ reqs' = [reqs EXCEPT ![r].pc = "User.findById"]
            /\ UNCHANGED resp
       ELSE Finish(r, 200, "OK")
  /\ UNCHANGED <<users, jobs, blogs, resources, products>>

\* User.findById resolves; the earnings or the refund change in the handler's
\* copy; user.save
UpdateClaimFindUser(r) ==
  /\ reqs[r].op = "updateClaim" /\ reqs[r].pc = "User.findById"
  /\ reqs' = [reqs EXCEPT ![r].user = loadUser(reqs[r].claim.user),
                          ![r].pc = "user.save"]
  /\ UNCHANGED <<users, claims, jobs, blogs, resources, products, resp>>

\* user.save resolves; the response.  A save that replaces claimedMilestones
\* is refused (VersionError) when the document changed version since it was
\* loaded.
UpdateClaimSaveUser(r) ==
  /\ reqs[r].op = "updateClaim" /\ reqs[r].pc = "user.save"
  /\ LET uid == reqs[r].claim.user
         doc == reqs[r].user
         claim == reqs[r].claim
         writesArray == includes(doc.claimedMilestones, claim.points)
     IN
     IF reqs[r].status = "paid"
       THEN /\ users' = savePaidUser(users, uid, doc, claim)
            /\ Finish(r, 200, "OK")
     ELSE IF writesArray /\ doc.stale
       THEN /\ users' = users
            /\ Finish(r, 500, "InternalError")
     ELSE /\ users' = saveRejectedUser(users, uid, doc, claim)
          /\ reqs' = Finished(IF writesArray THEN Bump(reqs, r, uid) ELSE reqs,
                              r, 200, "OK")
          /\ resp' = Response("updateClaim", 200, "OK")
  /\ WithinBounds(users')
  /\ UNCHANGED <<claims, jobs, blogs, resources, products>>

NextConc ==
  \E r \in ReqIds :
    \/ StartCreateClaim(r)
    \/ CreateClaimFindUser(r)
    \/ CreateClaimFindPending(r)
    \/ CreateClaimCreate(r)
    \/ CreateClaimSave(r)
    \/ StartUpdateClaim(r)
    \/ UpdateClaimFindClaim(r)
    \/ UpdateClaimSaveClaim(r)
    \/ UpdateClaimFindUser(r)
    \/ UpdateClaimSaveUser(r)

\* c1 has the balance of one milestone and no claim yet, or has spent it on
\* the 10 points milestone
InitConc ==
  /\ \E claimed \in BOOLEAN :
       /\ users = [u \in UserIds |->
                     IF u = Admin THEN User("super_admin", 0)
                     ELSE IF u = "c1" /\ claimed
                       THEN [User("job_poster", 0) EXCEPT !.claimedMilestones = <<10>>]
                     ELSE IF u = "c1" THEN User("job_poster", 10)
                     ELSE User("job_poster", 0)]
       /\ claims = IF claimed THEN <<Claim("c1", 10)>> ELSE <<>>
  /\ jobs = <<>>
  /\ blogs = <<>>
  /\ resources = <<>>
  /\ products = <<>>
  /\ resp = Response("none", 0, "none")
  /\ reqs = [r \in ReqIds |-> Idle]

SpecConc == InitConc /\ [][NextConc]_vars

----------------------------------------------------------------------------
(* createJob and deleteJob interleaving with the claim handlers *)

\* POST /api/jobs up to createJob's Job.create
StartCreateJob(r) ==
  /\ reqs[r].pc = "idle"
  /\ \E actor \in ConcActors :
       LET req == [Idle EXCEPT !.op = "createJob", !.actor = actor,
                               !.snap = loadUser(actor)]
           arrived == Arrive(r, req)
           refusal == IF protect(actor) # 0 THEN protect(actor)
                      ELSE canPostJobs(actor)
       IN IF refusal # 0
            THEN /\ reqs' = Finished(arrived, r, refusal, "Unauthorized")
                 /\ resp' = Response("createJob", refusal, "Unauthorized")
          ELSE /\ reqs' = [arrived EXCEPT ![r].pc = "Job.create"]
               /\ UNCHANGED resp
  /\ UNCHANGED <<users, claims, jobs, blogs, resources, products>>

\* Job.create resolves; the $inc of the points unless the caller is super_admin
CreateJobCreate(r) ==
  /\ reqs[r].op = "createJob" /\ reqs[r].pc = "Job.create"
  /\ Len(jobs) < MaxRaceJobs
  /\ jobs' = Append(jobs, Job(reqs[r].actor))
  /\ IF earnsPoints(users[reqs[r].actor])
       THEN /\ reqs' = [reqs EXCEPT ![r].pc = "User.findByIdAndUpdate",
                                    ![r].jid = Len(jobs')]
            /\ UNCHANGED resp
       ELSE Finish(r, 201, "Created")
  /\ UNCHANGED <<users, claims, blogs, resources, products>>

\* the $inc by 1 takes effect; the response
CreateJobInc(r) ==
  /\ reqs[r].op = "createJob" /\ reqs[r].pc = "User.findByIdAndUpdate"
  /\ users' = incPoints(users, reqs[r].actor, 1)
  /\ Finish(r, 201, "Created")
  /\ UNCHANGED <<claims, jobs, blogs, resources, products>>

\* DELETE /api/jobs/:id up to deleteJob's Job.findById
StartDeleteJob(r) ==
  /\ reqs[r].pc = "idle"
  /\ \E actor \in ConcActors, jid \in 1..MaxRaceJobs :
       LET req == [Idle EXCEPT !.op = "deleteJob", !.actor = actor,
                               !.jid = jid, !.snap = loadUser(actor)]
           arrived == Arrive(r, req)
           refusal == IF protect(actor) # 0 THEN protect(actor)
                      ELSE canPostJobs(actor)
       IN IF refusal # 0
            THEN /\ reqs' = Finished(arrived, r, refusal, "Unauthorized")
                 /\ resp' = Response("deleteJob", refusal, "Unauthorized")
          ELSE /\ reqs' = [arrived EXCEPT ![r].pc = "Job.findById"]
               /\ UNCHANGED resp
  /\ UNCHANGED <<users, claims, jobs, blogs, resources, products>>

\* Job.findById resolves; the ownership test; the job is marked in the
\* handler's copy; job.save, or Job.findByIdAndDelete for a super_admin
DeleteJobFind(r) ==
  /\ reqs[r].op = "deleteJob" /\ reqs[r].pc = "Job.findById"
  /\ LET jid == reqs[r].jid
         caller == users[reqs[r].actor]
     IN
     IF jid \notin DOMAIN jobs \/ jobs[jid] = NoJob
       THEN Finish(r, 404, "JobNotFound")
     ELSE IF jobs[jid].postedBy # reqs[r].actor /\ ~isSuperAdmin(caller)
       THEN Finish(r, 403, "Unauthorized")
     ELSE /\ reqs' = [reqs EXCEPT ![r].pc = IF isSuperAdmin(caller)
                                              THEN "Job.findByIdAndDelete"
                                              ELSE "job.save"]
          /\ UNCHANGED resp
  /\ UNCHANGED <<users, claims, jobs, blogs, resources, products>>

\* job.save resolves and the $inc by -1 is sent; or Job.findByIdAndDelete
\* resolves and the response is sent
DeleteJobSave(r) ==
  /\ reqs[r].op = "deleteJob"
  /\ reqs[r].pc \in {"job.save", "Job.findByIdAndDelete"}
  /\ IF reqs[r].pc = "job.save"
       THEN /\ jobs' = [jobs EXCEPT ![reqs[r].jid].isDeleted = TRUE]
            /\ reqs' = [reqs EXCEPT ![r].pc = "User.findByIdAndUpdate"]
            /\ UNCHANGED resp
       ELSE /\ jobs' = [jobs EXCEPT ![reqs[r].jid] = NoJob]
            /\ Finish(r, 200, "OK")
  /\ UNCHANGED <<users, claims, blogs, resources, products>>

\* the $inc by -1 takes effect; if (updatedUser.points < 0) the update that
\* sets the points to 0 is sent, else the response
DeleteJobInc(r) ==
  /\ reqs[r].op = "deleteJob" /\ reqs[r].pc = "User.findByIdAndUpdate"
  /\ users' = incPoints(users, jobs[reqs[r].jid].postedBy, -1)
  /\ IF users'[jobs[reqs[r].jid].postedBy].points < 0
       THEN /\ reqs' = [reqs EXCEPT ![r].pc = "User.findByIdAndUpdate.floor"]
            /\ UNCHANGED resp
       ELSE Finish(r, 200, "OK")
  /\ UNCHANGED <<claims, jobs, blogs, resources, products>>

\* the update that sets the points to 0 takes effect; the response
DeleteJobFloor(r) ==
  /\ reqs[r].op = "deleteJob" /\ reqs[r].pc = "User.findByIdAndUpdate.floor"
  /\ users' = [users EXCEPT ![jobs[reqs[r].jid].postedBy].points = 0]
  /\ Finish(r, 200, "OK")
  /\ UNCHANGED <<claims, jobs, blogs, resources, products>>

NextRace ==
  \E r \in ReqIds :
    \/ StartCreateClaim(r)
    \/ CreateClaimFindUser(r)
    \/ CreateClaimFindPending(r)
    \/ CreateClaimCreate(r)
    \/ CreateClaimSave(r)
    \/ StartUpdateClaim(r)
    \/ UpdateClaimFindClaim(r)
    \/ UpdateClaimSaveClaim(r)
    \/ UpdateClaimFindUser(r)
    \/ UpdateClaimSaveUser(r)
    \/ StartCreateJob(r)
    \/ CreateJobCreate(r)
    \/ CreateJobInc(r)
    \/ StartDeleteJob(r)
    \/ DeleteJobFind(r)
    \/ DeleteJobSave(r)
    \/ DeleteJobInc(r)
    \/ DeleteJobFloor(r)

\* c1 has the points of one milestone and has posted nothing, or has spent
\* them on the milestone 10 and has one job posted
InitRace ==
  /\ \E spent \in BOOLEAN :
       /\ users = [u \in UserIds |->
                     IF u = Admin THEN User("super_admin", 0)
                     ELSE IF u = "c1" /\ spent
                       THEN [User("job_poster", 0) EXCEPT !.claimedMilestones = <<10>>]
                     ELSE IF u = "c1" THEN User("job_poster", 10)
                     ELSE User("job_poster", 0)]
       /\ claims = IF spent THEN <<Claim("c1", 10)>> ELSE <<>>
       /\ jobs = IF spent THEN <<Job("c1")>> ELSE <<>>
  /\ blogs = <<>>
  /\ resources = <<>>
  /\ products = <<>>
  /\ resp = Response("none", 0, "none")
  /\ reqs = [r \in ReqIds |-> Idle]

SpecRace == InitRace /\ [][NextRace]_vars

----------------------------------------------------------------------------
(* Properties of the claim routes *)

ClaimsOf(uid) == {i \in DOMAIN claims : claims[i].user = uid}

PendingClaimsOf(uid) == {i \in ClaimsOf(uid) : claims[i].status = "pending"}

RECURSIVE SumAmount(_)
SumAmount(S) ==
  IF S = {} THEN 0
  ELSE LET i == CHOOSE j \in S : TRUE IN claims[i].amount + SumAmount(S \ {i})

\* C1: every contributor has at most one claim whose status is pending.
C1_AtMostOnePending == \A u \in UserIds : Cardinality(PendingClaimsOf(u)) <= 1

\* C2: a createClaim for a milestone that is in the caller's claimedMilestones
\* answers AlreadyClaimed and changes nothing; no step adds a claim for a
\* milestone its user had in claimedMilestones; and a milestone leaves
\* claimedMilestones only in an updateClaim step that rejects a claim of that
\* user for that milestone.
C2_ClaimedMilestoneNotClaimable ==
  [][ /\ \A u \in UserIds, m \in DOMAIN validMilestones :
           includes(users[u].claimedMilestones, m)
             => createClaim(u, m, "none") = Out(users, claims, 400, "AlreadyClaimed")
      /\ Len(claims') > Len(claims)
           => LET c == claims'[Len(claims')]
              IN ~includes(users[c.user].claimedMilestones, c.points)
      /\ \A u \in UserIds, m \in DOMAIN validMilestones :
           (includes(users[u].claimedMilestones, m)
              /\ ~includes(users'[u].claimedMilestones, m))
             => /\ resp' = Response("updateClaim", 200, "OK")
                /\ \E i \in DOMAIN claims' :
                     /\ claims'[i].user = u
                     /\ claims'[i].points = m
                     /\ claims'[i].status = "rejected"
    ]_vars

C2_Witness ==
  /\ resp = Response("createClaim", 400, "AlreadyClaimed")
  /\ \E u \in Contributors : users[u].claimedMilestones # <<>>

C4_CreateClaimAllOrNothing ==
  [][resp'.op = "createClaim"
       => \/ /\ claims' = claims
             /\ users' = users
          \/ /\ Len(claims') = Len(claims) + 1
             /\ LET c == claims'[Len(claims')] IN
                /\ c.status = "pending"
                /\ users'[c.user].points = users[c.user].points - c.points
                /\ users'[c.user].claimedMilestones
                     = Append(users[c.user].claimedMilestones, c.points)
    ]_vars

\* requests r1 and r2 were in flight at the same time
Concurrent(r1, r2) == r1 # r2 /\ r2 \in reqs[r1].with

Succeeded(r, op, code) ==
  reqs[r].op = op /\ reqs[r].pc = "done" /\ reqs[r].code = code

Max(a, b) == IF a >= b THEN a ELSE b
Min(a, b) == IF a <= b THEN a ELSE b

\* C5: two concurrent createClaim requests of one contributor both succeed
\* only if the balance covered both milestones, and the claims they created
\* are not both pending.
C5_ConcurrentClaims ==
  \A r1, r2 \in ReqIds :
    ( /\ Concurrent(r1, r2)
      /\ Succeeded(r1, "createClaim", 201) /\ Succeeded(r2, "createClaim", 201)
      /\ reqs[r1].actor = reqs[r2].actor )
    => /\ Max(reqs[r1].snap.points, reqs[r2].snap.points)
            >= reqs[r1].points + reqs[r2].points
       /\ ~ /\ claims[reqs[r1].cid].status = "pending"
            /\ claims[reqs[r2].cid].status = "pending"

\* C6: a claim's status changes only along pending -> processing, paid,
\* rejected and processing -> paid, rejected.
StatusGraph ==
  {<<"pending", "processing">>, <<"pending", "paid">>, <<"pending", "rejected">>,
   <<"processing", "paid">>, <<"processing", "rejected">>}

C6_StatusGraph ==
  [][\A i \in DOMAIN claims :
       claims'[i].status # claims[i].status
         => <<claims[i].status, claims'[i].status>> \in StatusGraph]_vars

\* C7: a claim credits its amount to its owner's totalEarnings at most once,
\* however often it is resolved to paid.
C7_PaidCreditedOnce ==
  \A u \in UserIds : users[u].totalEarnings <= SumAmount(ClaimsOf(u))

\* C8: two concurrent updateClaim requests that both reject one claim refund
\* its points once, and two that both pay it credit its amount once.
C8_ConcurrentResolves ==
  \A r1, r2 \in ReqIds :
    ( /\ Concurrent(r1, r2)
      /\ Succeeded(r1, "updateClaim", 200) /\ Succeeded(r2, "updateClaim", 200)
      /\ reqs[r1].cid = reqs[r2].cid
      /\ reqs[r1].status = reqs[r2].status )
    => LET claim == claims[reqs[r1].cid]
           owner == users[claim.user]
       IN /\ reqs[r1].status = "rejected"
               => owner.points
                    <= Min(reqs[r1].snap.points, reqs[r2].snap.points) + claim.points
          /\ reqs[r1].status = "paid"
               => owner.totalEarnings
                    <= Min(reqs[r1].snap.totalEarnings, reqs[r2].snap.totalEarnings)
                         + claim.amount

\* C9: updateClaim with status paid adds exactly the claim's amount to the
\* owner's totalEarnings and changes nothing else of any user.
C9_PaidCreditsAmount ==
  \A cid \in DOMAIN claims :
    LET out == updateClaim(Admin, cid, "paid", "none")
        owner == claims[cid].user
    IN /\ out.code = 200
       /\ out.users[owner].totalEarnings
            = users[owner].totalEarnings + claims[cid].amount
       /\ out.users[owner].points = users[owner].points
       /\ out.users[owner].claimedMilestones = users[owner].claimedMilestones
       /\ \A u \in UserIds \ {owner} : out.users[u] = users[u]

C9_Witness ==
  /\ resp = Response("updateClaim", 200, "OK")
  /\ \E cid \in DOMAIN claims :
       /\ claims[cid].status = "paid"
       /\ users[claims[cid].user].totalEarnings = claims[cid].amount
       /\ users[claims[cid].user].claimedMilestones # <<>>

\* C10: updateClaim with status rejected adds exactly the claim's points to
\* the owner's points, removes that milestone (and no other) from the owner's
\* claimedMilestones and leaves totalEarnings unchanged.
C10_RejectedRefunds ==
  \A cid \in DOMAIN claims :
    LET out == updateClaim(Admin, cid, "rejected", "none")
        owner == claims[cid].user
        before == users[owner].claimedMilestones
        after == out.users[owner].claimedMilestones
    IN /\ out.code = 200
       /\ out.users[owner].points = users[owner].points + claims[cid].points
       /\ ~includes(after, claims[cid].points)
       /\ \A m \in DOMAIN validMilestones \ {claims[cid].points} :
            includes(after, m) <=> includes(before, m)
       /\ out.users[owner].totalEarnings = users[owner].totalEarnings

C10_Witness ==
  /\ resp = Response("updateClaim", 200, "OK")
  /\ \E cid \in DOMAIN claims :
       LET owner == claims[cid].user IN
       /\ claims[cid].status = "rejected"
       /\ ~includes(users[owner].claimedMilestones, claims[cid].points)
       /\ users[owner].claimedMilestones # <<>>
       /\ users[owner].points = 35 - users[owner].claimedMilestones[1]

\* C11: updateClaim with status processing answers 200, changes no user and
\* changes of the claims only the status of the claim it names.
C11_ProcessingNoBalanceEffect ==
  \A cid \in DOMAIN claims :
    LET out == updateClaim(Admin, cid, "processing", "none")
    IN /\ out.code = 200
       /\ out.users = users
       /\ DOMAIN out.claims = DOMAIN claims
       /\ \A i \in DOMAIN claims \ {cid} : out.claims[i] = claims[i]
       /\ out.claims[cid] = [claims[cid] EXCEPT !.status = "processing"]

C11_Witness ==
  /\ resp = Response("updateClaim", 200, "OK")
  /\ \E cid \in DOMAIN claims :
       LET owner == users[claims[cid].user] IN
       /\ claims[cid].status = "processing"
       /\ owner.claimedMilestones = <<claims[cid].points>>
       /\ owner.points = 35 - claims[cid].points
       /\ owner.totalEarnings = 0

\* C12: a createClaim of a user who has a pending claim, for a milestone of
\* the table that is not in claimedMilestones, answers ClaimAlreadyPending
\* and changes nothing, whatever the user's balance is.
C12_PendingReportedFirst ==
  \A u \in UserIds, m \in DOMAIN validMilestones :
    (findPendingClaim(claims, u) /\ ~alreadyClaimed(users[u], m))
      => createClaim(u, m, "none") = Out(users, claims, 400, "ClaimAlreadyPending")

\* C13: a createClaim that succeeds, followed by the updateClaim that rejects
\* the claim it created, leaves the user's points and claimedMilestones as
\* they were before the createClaim, and the same createClaim then succeeds
\* again.
C13_RejectRoundTrip ==
  \A u \in UserIds, m \in DOMAIN validMilestones :
    LET requested == createClaim(u, m, "none")
        cid == Len(requested.claims)
        rejected == updateClaimOn(requested.users, requested.claims,
                                  Admin, cid, "rejected", "none")
        again == createClaimOn(rejected.users, rejected.claims, u, m, "none")
    IN requested.code = 201
         => /\ rejected.code = 200
            /\ rejected.claims[cid].status = "rejected"
            /\ rejected.users[u].points = users[u].points
            /\ rejected.users[u].claimedMilestones = users[u].claimedMilestones
            /\ again.code = 201
            /\ again.users[u].points = users[u].points - m

\* the second claim of a milestone, after the first one was rejected
C13_Witness ==
  /\ resp = Response("createClaim", 201, "Created")
  /\ Len(claims) = 2
  /\ claims[1].status = "rejected" /\ claims[2].status = "pending"
  /\ claims[1].user = claims[2].user /\ claims[1].points = claims[2].points
  /\ users[claims[2].user].points = 35 - claims[2].points
  /\ users[claims[2].user].claimedMilestones = <<claims[2].points>>

\* C14: a createClaim whose points are not one of 10, 25, 50, 100 answers
\* InvalidMilestone and changes no user and no claim.
C14_InvalidMilestoneRejected ==
  \A u \in UserIds, points \in ReqPoints \ DOMAIN validMilestones :
    createClaim(u, points, "none") = Out(users, claims, 400, "InvalidMilestone")

\* C15 as stated: a createClaim for a milestone above the caller's points
\* answers InsufficientBalance and changes nothing.
C15_InsufficientWhenever ==
  \A u \in UserIds, m \in DOMAIN validMilestones :
    users[u].points < m
      => createClaim(u, m, "none") = Out(users, claims, 400, "InsufficientBalance")

\* C15: a createClaim for a milestone above the caller's points is refused and
\* changes nothing; the failure is InsufficientBalance unless the milestone is
\* in the caller's claimedMilestones, and then AlreadyClaimed.  Every
\* createClaim that succeeds adds one claim and takes exactly the milestone's
\* points from a balance that was at least that large.
C15_InsufficientBalance ==
  \A u \in UserIds, m \in DOMAIN validMilestones :
    LET out == createClaim(u, m, "none") IN
    /\ users[u].points < m
         => out = Out(users, claims, 400,
                      IF alreadyClaimed(users[u], m) THEN "AlreadyClaimed"
                      ELSE "InsufficientBalance")
    /\ out.code = 201
         => /\ Len(out.claims) = Len(claims) + 1
            /\ out.claims[Len(out.claims)].points = m
            /\ users[u].points >= m
            /\ out.users[u].points = users[u].points - m

\* a contributor who has 25 points left after claiming 10 was just refused
\* the milestone 50
C15_Witness ==
  /\ resp = Response("createClaim", 400, "InsufficientBalance")
  /\ \E u \in Contributors :
       /\ users[u].points = 25
       /\ users[u].claimedMilestones = <<10>>
       /\ ~findPendingClaim(claims, u)

\* the payout of each milestone
AmountTable == {<<10, 15>>, <<25, 30>>, <<50, 60>>, <<100, 120>>}

\* C16: every claim has the points and the amount of one row of the table,
\* and no step changes the points or the amount of a claim that exists.
C16_ClaimAmountTable ==
  [][\A i \in DOMAIN claims' :
       /\ <<claims'[i].points, claims'[i].amount>> \in AmountTable
       /\ i \in DOMAIN claims
            => /\ claims'[i].points = claims[i].points
               /\ claims'[i].amount = claims[i].amount]_vars

\* two claims of different milestones, both resolved
C16_Witness ==
  /\ Len(claims) = 2
  /\ claims[1].points = 10 /\ claims[1].amount = 15 /\ claims[1].status = "paid"
  /\ claims[2].points = 25 /\ claims[2].amount = 30 /\ claims[2].status = "rejected"

C18_SuperAdminExempt ==
  \A a \in UserIds :
    users[a].role = "super_admin" =>
      LET removed(out) == out.code = 200 /\ out.users = users
      IN
      /\ createJob(a).users = users
      /\ createBlog(a).users = users
      /\ createResource(a).users = users
      /\ createProduct(a).users = users
      /\ \A i \in DOMAIN jobs :
           jobs[i] # NoJob
             => removed(deleteJob(a, i)) /\ deleteJob(a, i).jobs[i] = NoJob
      /\ \A i \in DOMAIN blogs :
           blogs[i] # NoBlog
             => removed(deleteBlog(a, i)) /\ deleteBlog(a, i).blogs[i] = NoBlog
      /\ \A i \in DOMAIN resources :
           resources[i] # NoResource
             => /\ removed(deleteResource(a, i))
                /\ deleteResource(a, i).resources[i] = NoResource
      /\ \A i \in DOMAIN products :
           products[i] # NoProduct
             => /\ removed(deleteProduct(a, i))
                /\ deleteProduct(a, i).products[i] = NoProduct

\* the super admin has just removed the resource a contributor had posted for
\* one point
C18_Witness ==
  /\ resp = Response("deleteResource", 200, "OK")
  /\ resources = <<NoResource>>
  /\ claims = <<>>
  /\ users["c1"].role = "resource_poster"
  /\ users["c2"].points = 1
  /\ users[Admin].points = 0

\* C19: a PUT /api/claims/:id of a caller who is not a super_admin is refused
\* as Unauthorized and changes no user and no claim.
C19_ResolveNeedsSuperAdmin ==
  [][\A actor \in Actors :
       ( /\ actor \in UserIds => users[actor].role # "super_admin"
         /\ ClaimIdRoute(actor, {"none"}) )
       => /\ resp'.op = "updateClaim"
          /\ resp'.code \in {401, 403}
          /\ resp'.msg = "Unauthorized"
          /\ UNCHANGED <<users, claims>>]_vars

\* a request to resolve was refused while a claim was pending
C19_Witness ==
  /\ resp = Response("updateClaim", 403, "Unauthorized")
  /\ \E i \in DOMAIN claims : claims[i].status = "pending"

\* C20: a POST /api/claims that protect refuses (no valid token, or an account
\* that is not approved and not super_admin) changes no user and no claim;
\* and a claim is added only by a createClaim that answers 201, for a user
\* whose account is approved or super_admin.
C20_ClaimsNeedAuthentication ==
  [][ /\ \A actor \in Actors :
           (protect(actor) # 0 /\ ClaimRoute(actor, {"none"}))
             => /\ resp'.code \in {401, 403}
                /\ UNCHANGED <<users, claims>>
      /\ Len(claims') > Len(claims)
           => /\ resp' = Response("createClaim", 201, "Created")
              /\ LET c == claims'[Len(claims')] IN
                 \/ users[c.user].status = "approved"
                 \/ users[c.user].role = "super_admin"
    ]_vars

\* a claim request of the contributor whose account is blocked was refused
C20_Witness ==
  /\ resp = Response("createClaim", 403, "Unauthorized")
  /\ users["c2"].status = "blocked"
  /\ users["c2"].points = 10
  /\ users["c2"].claimedMilestones = <<>>
  /\ claims # <<>>

----------------------------------------------------------------------------
(* Properties of the claim records and of the user routes *)

C22_ResolveAllOrNothing ==
  [][resp'.op = "updateClaim"
       => \A i \in DOMAIN claims :
            claims'[i].status # claims[i].status
              => LET owner == claims[i].user IN
                 /\ claims'[i].status = "paid"
                      => users'[owner].totalEarnings
                           = users[owner].totalEarnings + claims[i].amount
                 /\ claims'[i].status = "rejected"
                      => /\ users'[owner].points
                              = users[owner].points + claims[i].points
                         /\ ~includes(users'[owner].claimedMilestones,
                                      claims[i].points)
    ]_vars

\* the sum of the points of the claims C[i], i in S
RECURSIVE SumPoints(_, _)
SumPoints(C, S) ==
  IF S = {} THEN 0
  ELSE LET i == CHOOSE j \in S : TRUE IN C[i].points + SumPoints(C, S \ {i})

\* the claims of uid in C whose status is one of Statuses
ClaimsIn(C, uid, Statuses) ==
  {i \in DOMAIN C : C[i].user = uid /\ C[i].status \in Statuses}

\* C23: no createClaim or updateClaim step changes, for any user, the sum of
\* the user's points and of the points of the user's claims that are pending,
\* processing or paid.
C23_PointsConserved ==
  [][LET Conserved(U, C, uid) ==
           U[uid].points
             + SumPoints(C, ClaimsIn(C, uid, {"pending", "processing", "paid"}))
     IN \A u \in UserIds :
          Conserved(users', claims', u) = Conserved(users, claims, u)]_vars

\* C24: every user's totalEarnings is the sum of the amounts of the user's
\* claims whose status is paid.
C24_EarningsArePaidClaims ==
  \A u \in UserIds :
    users[u].totalEarnings = SumAmount(ClaimsIn(claims, u, {"paid"}))

\* C25: every user's claimedMilestones holds exactly the points of the user's
\* claims whose status is not rejected, and holds no value twice.
C25_MilestonesAreOpenClaims ==
  \A u \in UserIds :
    LET arr == users[u].claimedMilestones IN
    /\ {arr[k] : k \in DOMAIN arr}
         = {claims[i].points : i \in ClaimsIn(claims, u, ClaimStatuses \ {"rejected"})}
    /\ \A k, l \in DOMAIN arr : arr[k] = arr[l] => k = l

----------------------------------------------------------------------------
(* Properties of the content routes *)

\* C27: a delete request of a user who is not super_admin on a job, blog or
\* resource of theirs that is already marked isDeleted does not lower that
\* user's points.
C27_DeletedEntryNotDebitedAgain ==
  \A u \in UserIds :
    (users[u] # NoUserDoc /\ earnsPoints(users[u])) =>
      /\ \A i \in DOMAIN jobs :
           (jobs[i].postedBy = u /\ jobs[i].isDeleted)
             => deleteJob(u, i).users[u].points >= users[u].points
      /\ \A i \in DOMAIN blogs :
           (blogs[i].author = u /\ blogs[i].isDeleted)
             => deleteBlog(u, i).users[u].points >= users[u].points
      /\ \A i \in DOMAIN resources :
           (resources[i].postedBy = u /\ resources[i].isDeleted)
             => deleteResource(u, i).users[u].points >= users[u].points

\* C29: for a caller who is not super_admin, none of the read handlers of
\* jobs, blogs and resources (list, grouped list, featured list, by id, by
\* slug, my entries) has an entry in its response that is marked isDeleted.
C29_DeletedEntriesHidden ==
  \A actor \in Actors :
    hidesDeleted(actor) =>
      /\ \A i \in getJobs(actor) \cup getJobsGrouped \cup getMyJobs(actor) :
           ~jobs[i].isDeleted
      /\ \A id \in DOMAIN jobs : \A i \in getJob(id) \cup getJobBySlug(id) :
           ~jobs[i].isDeleted
      /\ \A i \in getBlogs \cup getFeaturedBlogs \cup getMyBlogs(actor) :
           ~blogs[i].isDeleted
      /\ \A slug \in DOMAIN blogs : \A i \in getBlogBySlug(slug) :
           ~blogs[i].isDeleted
      /\ \A i \in getResources(actor) \cup getResourcesGrouped
                  \cup getMyResources(actor) :
           ~resources[i].isDeleted
      /\ \A id \in DOMAIN resources : \A i \in getResource(id) :
           ~resources[i].isDeleted

----------------------------------------------------------------------------
(* Properties of the interleaved job and claim handlers *)

\* C26: when a createClaim that answered 201 and a createJob that answered 201
\* for the same user were in flight at the same time, the user's points are
\* the points before the two requests plus 1 minus the milestone.
C26_CreditNotLost ==
  \A r1, r2 \in ReqIds :
    ( /\ Concurrent(r1, r2)
      /\ Succeeded(r1, "createClaim", 201) /\ Succeeded(r2, "createJob", 201)
      /\ reqs[r1].actor = reqs[r2].actor )
    => users[reqs[r1].actor].points
         = reqs[r2].snap.points + 1 - reqs[r1].points

\* C28: when a deleteJob of a contributor with 0 points was in flight at the
\* same time as a createJob of that contributor or as an updateClaim that
\* rejected a claim of that contributor, and both have answered, the points
\* are those of one of the two sequential orders (the credit, or the credit
\* minus 1); and no handler holds a user document with negative points.
C28_FloorSerializable ==
  /\ \A r1, r2 \in ReqIds :
       LET Credited(r) == IF reqs[r].op = "createJob" THEN reqs[r].actor
                          ELSE claims[reqs[r].cid].user
           Credit(r) == IF reqs[r].op = "createJob" THEN 1
                        ELSE claims[reqs[r].cid].points
       IN
       ( /\ Concurrent(r1, r2)
         /\ Succeeded(r1, "deleteJob", 200)
         /\ reqs[r1].snap.points = 0
         /\ \/ Succeeded(r2, "createJob", 201)
            \/ Succeeded(r2, "updateClaim", 200) /\ reqs[r2].status = "rejected"
         /\ Credited(r2) = reqs[r1].actor )
       => users[reqs[r1].actor].points \in {Credit(r2), Credit(r2) - 1}
  /\ \A r \in ReqIds : reqs[r].user.points >= 0

====
